---- MODULE Spec2Model ----
(***************************************************************************)
(* Model of bot.ts: the update router of a Telegram chat bot.  The store   *)
(* (User, Chat, Message collections), the per-conversation session, the    *)
(* image dialog and the handlers of /start, /newchat, /image, the quality  *)
(* and cancel buttons and free-text messages.                              *)
(*                                                                         *)
(* A handler of /start, /newchat or a free-text message is a process: it   *)
(* suspends at every awaited database or completion call.  Every awaited   *)
(* database call may throw; the handler's catch block then runs.  Calls of *)
(* the chat platform (reply, editText) are taken to succeed.               *)
(*                                                                         *)
(* Spec            one update is handled at a time, as bot.start() does;   *)
(*                 Chat documents may disappear from the store meanwhile.  *)
(* SpecInterleaved two updates of one platform user are handled at once    *)
(*                 and interleave at their awaited calls.                  *)
(* SpecImage       the image dialog: /image, the buttons, the prompt.      *)
(***************************************************************************)
EXTENDS Integers, Sequences, FiniteSets, TLC

VARIABLES
    users,      \* User collection: set of [id, telegramId, selectedModel]
    chats,      \* Chat collection: set of [id, userId, createdAt, updatedAt]
    messages,   \* Message collection: set of [id, chatId, userId, role, content, createdAt]
    clock,      \* source of fresh identifiers and timestamps
    session,    \* session[conv] = [chatId, imageQuality]; chatId 0 is "undefined"
    dialog,     \* dialog[conv]: the image conversation of the session
    keyboards,  \* keyboards[conv]: quality keyboards shown and not yet pressed
    qualityFlag,\* process.env.IMAGE_QUALITY_CHANGE_AVAILABLE
    removed,    \* Chat documents removed from the store from outside
    handler     \* handler[i]: a running (or finished) handler invocation

vars == <<users, chats, messages, clock, session, dialog, keyboards, qualityFlag,
          removed, handler>>

----------------------------------------------------------------------------
(* Bounds *)

\* documents that may be created in one behaviour
MaxClock == 5
\* Chat documents removed from outside in one behaviour
MaxRemoved == 1
\* quality keyboards open at once in one conversation
MaxKeyboards == 2

\* the history window, src/utils/consts
MAX_HISTORY_LENGTH == 2

Handlers == {1, 2}
\* conversation 1 is the private chat of platform user 1, conversation 3 a
\* group chat in which both platform users write
Convs == {1, 3}
Senders == {<<1, 1>>, <<1, 3>>, <<2, 3>>}
Texts == {"hello"}
\* results of answerWithChatGPT: "" is the empty/absent result
Answers == {"", "reply"}
Qualities == {"standard", "hd"}
DefaultModel == "default-model"
\* the known AI models, src/types/types
Models == {DefaultModel, "other-model"}
\* the data a model-button callback may carry: an opaque string, a known model or not
ModelButtons == Models \cup {"unknown-model"}

----------------------------------------------------------------------------
(* Pure helpers *)

Max(a, b) == IF a >= b THEN a ELSE b
Min(a, b) == IF a <= b THEN a ELSE b

\* .sort({ createdAt: 1 }) of a query result
RECURSIVE SortByCreatedAt(_)
SortByCreatedAt(S) ==
    IF S = {} THEN <<>>
    ELSE LET m == CHOOSE x \in S : \A y \in S : x.createdAt <= y.createdAt
         IN  <<m>> \o SortByCreatedAt(S \ {m})

\* Message.find({ chatId }).sort({ createdAt: 1 }).lean()
FindMessages(chatId) ==
    SortByCreatedAt({m \in messages : m.chatId = chatId})

\* Array.prototype.slice(-n): the last n elements; slice(-0) is slice(0), the whole array
SliceLast(s, n) ==
    IF n = 0 THEN s
    ELSE SubSeq(s, Max(Len(s) - n, 0) + 1, Len(s))

\* mutant of History: the first N messages, slice(0, N)
History_First(msgs) == SubSeq(msgs, 1, Min(Len(msgs), MAX_HISTORY_LENGTH))

\* messages.slice(-MAX_HISTORY_LENGTH)
History(msgs) == SliceLast(msgs, MAX_HISTORY_LENGTH)

\* User.findOne({ telegramId }): some matching document, or none
UsersWith(telegramId) == {u \in users : u.telegramId = telegramId}

\* a fallback that sorts ascending: the set holding the oldest chat, or {}
LatestChat_Oldest(userId) ==
    {c \in chats : /\ c.userId = userId
                   /\ \A d \in chats : d.userId = userId => c.createdAt <= d.createdAt}

\* Chat.findOne({ userId }).sort({ createdAt: -1 }): the set holding the latest chat, or {}
LatestChat(userId) ==
    {c \in chats : /\ c.userId = userId
                   /\ \A d \in chats : d.userId = userId => d.createdAt <= c.createdAt}

\* Chat.findById(chatId)
ChatById(chatId) == {c \in chats : c.id = chatId}

----------------------------------------------------------------------------
(* Handler invocations *)

NoHandler ==
    [kind |-> "idle", pc |-> "done", from |-> 0, conv |-> 0, text |-> "",
     userId |-> 0, userModel |-> "", chatId |-> 0, chat |-> 0,
     existed |-> "unknown", history |-> <<>>, model |-> "", answer |-> "",
     placeholder |-> "none", sent |-> <<>>, trace |-> <<>>,
     newUsers |-> {}, newChats |-> {}, newMsgs |-> <<>>,
     sessionBefore |-> 0, outcome |-> "none", data |-> ""]

Free(i) == handler[i].pc = "done"

\* updates are handed to the lowest free handler slot
Slot(i) == Free(i) /\ \A j \in Handlers : Free(j) => i <= j

Running(i, kind, pc) == handler[i].kind = kind /\ handler[i].pc = pc

\* the handler's local variables after a step
Set(i, fields) == handler' = [handler EXCEPT ![i] = fields @@ handler[i]]

\* a new update is dispatched to handler slot i
Begin(i, fields) == handler' = [handler EXCEPT ![i] = fields @@ NoHandler]

CanWrite == clock < MaxClock
Now == clock + 1

Init ==
    /\ users = {}
    /\ chats = {}
    /\ messages = {}
    /\ clock = 0
    /\ session = [c \in Convs |-> [chatId |-> 0, imageQuality |-> "standard"]]
    /\ dialog = [c \in Convs |-> [state |-> "Idle", pressed |-> "none", calls |-> <<>>]]
    /\ keyboards = [c \in Convs |-> 0]
    /\ qualityFlag \in BOOLEAN
    /\ removed = 0
    /\ handler = [i \in Handlers |-> NoHandler]

----------------------------------------------------------------------------
(* bot.command('start') *)

\* the update arrives; ctx.reply(START_MESSAGE)
StartCommand(i, s) ==
    /\ Free(i)
    /\ Begin(i, [kind |-> "start", pc |-> "findUser", from |-> s[1], conv |-> s[2],
                 sessionBefore |-> session[s[2]].chatId, sent |-> <<"welcome">>])
    /\ UNCHANGED <<users, chats, messages, clock, session, dialog, keyboards, qualityFlag, removed>>

\* the catch block of /start
StartCatch(i) ==
    Set(i, [pc |-> "done", outcome |-> "error",
            sent |-> Append(handler[i].sent, "startError")])

\* mutant of StartFindUser: the lookup result is ignored, a User is always created
StartFindUser_AlwaysCreates(i) ==
    /\ Running(i, "start", "findUser")
    /\ Set(i, [pc |-> "createUser", existed |-> "no",
               sent |-> Append(handler[i].sent, "creating")])
    /\ UNCHANGED <<users, chats, messages, clock, session, dialog, keyboards, qualityFlag, removed>>

\* let user = await User.findOne({ telegramId: id })
StartFindUser(i) ==
    /\ Running(i, "start", "findUser")
    /\ \/ \E u \in UsersWith(handler[i].from) :
             Set(i, [pc |-> "createChat", userId |-> u.id, existed |-> "yes",
                     sent |-> Append(handler[i].sent, "enterQuery")])
       \/ /\ UsersWith(handler[i].from) = {}
          /\ Set(i, [pc |-> "createUser", existed |-> "no",
                     sent |-> Append(handler[i].sent, "creating")])
       \/ StartCatch(i)
    /\ UNCHANGED <<users, chats, messages, clock, session, dialog, keyboards, qualityFlag, removed>>

\* user = await User.create({ telegramId: id, ... })
StartCreateUser(i) ==
    /\ Running(i, "start", "createUser")
    /\ \/ /\ CanWrite
          /\ users' = users \cup {[id |-> Now, telegramId |-> handler[i].from,
                                   selectedModel |-> DefaultModel]}
          /\ clock' = Now
          /\ Set(i, [pc |-> "createChat", userId |-> Now,
                     newUsers |-> handler[i].newUsers \cup {Now},
                     sent |-> Append(handler[i].sent, "created")])
       \/ /\ StartCatch(i)
          /\ UNCHANGED <<users, clock>>
    /\ UNCHANGED <<chats, messages, session, dialog, keyboards, qualityFlag, removed>>


\* a /start that assigns the session before the Chat is created
StartCreateChat_SessionFirst(i) ==
    /\ Running(i, "start", "createChat")
    /\ session' = [session EXCEPT ![handler[i].conv].chatId = Now]
    /\ \/ /\ CanWrite
          /\ chats' = chats \cup {[id |-> Now, userId |-> handler[i].userId,
                                   createdAt |-> Now, updatedAt |-> Now]}
          /\ clock' = Now
          /\ Set(i, [pc |-> "done", outcome |-> "ok", chat |-> Now,
                     newChats |-> handler[i].newChats \cup {Now}])
       \/ /\ StartCatch(i)
          /\ UNCHANGED <<chats, clock>>
    /\ UNCHANGED <<users, messages, dialog, keyboards, qualityFlag, removed>>

\* const chat = await Chat.create({ userId: user._id }); ctx.session.chatId = chat._id
StartCreateChat(i) ==
    /\ Running(i, "start", "createChat")
    /\ \/ /\ CanWrite
          /\ chats' = chats \cup {[id |-> Now, userId |-> handler[i].userId,
                                   createdAt |-> Now, updatedAt |-> Now]}
          /\ clock' = Now
          /\ session' = [session EXCEPT ![handler[i].conv].chatId = Now]
          /\ Set(i, [pc |-> "done", outcome |-> "ok", chat |-> Now,
                     newChats |-> handler[i].newChats \cup {Now}])
       \/ /\ StartCatch(i)
          /\ UNCHANGED <<chats, clock, session>>
    /\ UNCHANGED <<users, messages, dialog, keyboards, qualityFlag, removed>>

----------------------------------------------------------------------------
(* bot.command('newchat') *)

NewchatCommand(i, s) ==
    /\ Free(i)
    /\ Begin(i, [kind |-> "newchat", pc |-> "findUser", from |-> s[1], conv |-> s[2],
                 sessionBefore |-> session[s[2]].chatId])
    /\ UNCHANGED <<users, chats, messages, clock, session, dialog, keyboards, qualityFlag, removed>>

NewchatCatch(i) ==
    Set(i, [pc |-> "done", outcome |-> "error",
            sent |-> Append(handler[i].sent, "newchatError")])

\* mutant of NewchatFindUser: the missing User is not checked for
NewchatFindUser_NoCheck(i) ==
    /\ Running(i, "newchat", "findUser")
    /\ \/ \E u \in UsersWith(handler[i].from) :
             Set(i, [pc |-> "createChat", userId |-> u.id, existed |-> "yes"])
       \/ /\ UsersWith(handler[i].from) = {}
          /\ Set(i, [pc |-> "createChat", existed |-> "no"])
       \/ NewchatCatch(i)
    /\ UNCHANGED <<users, chats, messages, clock, session, dialog, keyboards, qualityFlag, removed>>

\* const user = await User.findOne({ telegramId: id }); if (!user) reply and return
NewchatFindUser(i) ==
    /\ Running(i, "newchat", "findUser")
    /\ \/ \E u \in UsersWith(handler[i].from) :
             Set(i, [pc |-> "createChat", userId |-> u.id, existed |-> "yes"])
       \/ /\ UsersWith(handler[i].from) = {}
          /\ Set(i, [pc |-> "done", outcome |-> "userNotFound", existed |-> "no",
                     sent |-> Append(handler[i].sent, "pleaseStart")])
       \/ NewchatCatch(i)
    /\ UNCHANGED <<users, chats, messages, clock, session, dialog, keyboards, qualityFlag, removed>>

\* a /newchat that creates the Chat but leaves the session as it was
NewchatCreateChat_SessionKept(i) ==
    /\ Running(i, "newchat", "createChat")
    /\ \/ /\ CanWrite
          /\ chats' = chats \cup {[id |-> Now, userId |-> handler[i].userId,
                                   createdAt |-> Now, updatedAt |-> Now]}
          /\ clock' = Now
          /\ Set(i, [pc |-> "done", outcome |-> "ok", chat |-> Now,
                     newChats |-> handler[i].newChats \cup {Now},
                     sent |-> Append(handler[i].sent, "newChatCreated")])
          /\ UNCHANGED session
       \/ /\ NewchatCatch(i)
          /\ UNCHANGED <<chats, clock, session>>
    /\ UNCHANGED <<users, messages, dialog, keyboards, qualityFlag, removed>>

\* Chat.create, ctx.session.chatId = chat._id, reply
NewchatCreateChat(i) ==
    /\ Running(i, "newchat", "createChat")
    /\ \/ /\ CanWrite
          /\ chats' = chats \cup {[id |-> Now, userId |-> handler[i].userId,
                                   createdAt |-> Now, updatedAt |-> Now]}
          /\ clock' = Now
          /\ session' = [session EXCEPT ![handler[i].conv].chatId = Now]
          /\ Set(i, [pc |-> "done", outcome |-> "ok", chat |-> Now,
                     newChats |-> handler[i].newChats \cup {Now},
                     sent |-> Append(handler[i].sent, "newChatCreated")])
       \/ /\ NewchatCatch(i)
          /\ UNCHANGED <<chats, clock, session>>
    /\ UNCHANGED <<users, messages, dialog, keyboards, qualityFlag, removed>>

----------------------------------------------------------------------------
(* bot.on('message:text') *)

\* the update arrives outside the image dialog; chatId = ctx.session.chatId;
\* responseMessage = await ctx.reply('Загрузка...')
TextMessage(i, s, text) ==
    /\ Free(i)
    /\ dialog[s[2]].state # "AwaitingPrompt"
    /\ Begin(i, [kind |-> "text", pc |-> "findUser", from |-> s[1], conv |-> s[2],
                 text |-> text, chatId |-> session[s[2]].chatId,
                 sessionBefore |-> session[s[2]].chatId,
                 placeholder |-> "loading", trace |-> <<"placeholder">>])
    /\ UNCHANGED <<users, chats, messages, clock, session, dialog, keyboards, qualityFlag, removed>>

\* the catch block: responseMessage.editText(<processing error>)
TextCatch(i) ==
    Set(i, [pc |-> "done", outcome |-> "error", placeholder |-> "processingError"])

\* a text handler that goes on without a User
TextFindUser_NoCheck(i) ==
    /\ Running(i, "text", "findUser")
    /\ \/ \E u \in UsersWith(handler[i].from) :
             Set(i, [pc |-> IF handler[i].chatId = 0 THEN "findLatest" ELSE "findById",
                     userId |-> u.id, userModel |-> u.selectedModel, existed |-> "yes"])
       \/ /\ UsersWith(handler[i].from) = {}
          /\ Set(i, [pc |-> IF handler[i].chatId = 0 THEN "findLatest" ELSE "findById",
                     existed |-> "no"])
       \/ TextCatch(i)
    /\ UNCHANGED <<users, chats, messages, clock, session, dialog, keyboards, qualityFlag, removed>>

\* const user = await User.findOne({ telegramId }); if (!user) edit and return
TextFindUser(i) ==
    /\ Running(i, "text", "findUser")
    /\ \/ \E u \in UsersWith(handler[i].from) :
             Set(i, [pc |-> IF handler[i].chatId = 0 THEN "findLatest" ELSE "findById",
                     userId |-> u.id, userModel |-> u.selectedModel, existed |-> "yes"])
       \/ /\ UsersWith(handler[i].from) = {}
          /\ Set(i, [pc |-> "done", outcome |-> "userNotFound", existed |-> "no",
                     placeholder |-> "userNotFound"])
       \/ TextCatch(i)
    /\ UNCHANGED <<users, chats, messages, clock, session, dialog, keyboards, qualityFlag, removed>>

\* mutant of TextFindLatest: the handler goes on without a chat
TextFindLatest_NoCheck(i) ==
    /\ Running(i, "text", "findLatest")
    /\ \/ /\ \E c \in LatestChat(handler[i].userId) :
                /\ session' = [session EXCEPT ![handler[i].conv].chatId = c.id]
                /\ Set(i, [pc |-> "createUserMessage", chatId |-> c.id, chat |-> c.id])
       \/ /\ LatestChat(handler[i].userId) = {}
          /\ Set(i, [pc |-> "createUserMessage"])
          /\ UNCHANGED session
       \/ /\ TextCatch(i)
          /\ UNCHANGED session
    /\ UNCHANGED <<users, chats, messages, clock, dialog, keyboards, qualityFlag, removed>>

\* if (!chatId): latestChat = await Chat.findOne({ userId }).sort({ createdAt: -1 })
TextFindLatest(i) ==
    /\ Running(i, "text", "findLatest")
    /\ \/ /\ \E c \in LatestChat(handler[i].userId) :
                /\ session' = [session EXCEPT ![handler[i].conv].chatId = c.id]
                /\ Set(i, [pc |-> "createUserMessage", chatId |-> c.id, chat |-> c.id])
       \/ /\ LatestChat(handler[i].userId) = {}
          /\ Set(i, [pc |-> "done", outcome |-> "noChat", placeholder |-> "pleaseStart"])
          /\ UNCHANGED session
       \/ /\ TextCatch(i)
          /\ UNCHANGED session
    /\ UNCHANGED <<users, chats, messages, clock, dialog, keyboards, qualityFlag, removed>>

\* const chat = chatObj || (await Chat.findById(chatId)); if (!chat) ctx.reply and return
TextFindById(i) ==
    /\ Running(i, "text", "findById")
    /\ \/ \E c \in ChatById(handler[i].chatId) :
             Set(i, [pc |-> "createUserMessage", chat |-> c.id])
       \/ /\ ChatById(handler[i].chatId) = {}
          /\ Set(i, [pc |-> "done", outcome |-> "chatNotFound",
                     sent |-> Append(handler[i].sent, "chatNotFound")])
       \/ TextCatch(i)
    /\ UNCHANGED <<users, chats, messages, clock, session, dialog, keyboards, qualityFlag, removed>>

\* await Message.create({ chatId, userId, role, content })
CreateMessage(i, role, content, next) ==
    /\ CanWrite
    /\ messages' = messages \cup {[id |-> Now, chatId |-> handler[i].chat,
                                   userId |-> handler[i].userId, role |-> role,
                                   content |-> content, createdAt |-> Now]}
    /\ clock' = Now
    /\ Set(i, [pc |-> next, newMsgs |-> Append(handler[i].newMsgs, Now),
               trace |-> Append(handler[i].trace, role)])

\* await Message.create({ ..., role: 'user', content: userMessageText })
TextCreateUserMessage(i) ==
    /\ Running(i, "text", "createUserMessage")
    /\ \/ CreateMessage(i, "user", handler[i].text, "findMessages")
       \/ /\ TextCatch(i)
          /\ UNCHANGED <<messages, clock>>
    /\ UNCHANGED <<users, chats, session, dialog, keyboards, qualityFlag, removed>>

\* messages = await Message.find(...).sort(...).lean(); history = messages.slice(-N)
TextFindMessages(i) ==
    /\ Running(i, "text", "findMessages")
    /\ \/ Set(i, [pc |-> "complete", history |-> History(FindMessages(handler[i].chat))])
       \/ TextCatch(i)
    /\ UNCHANGED <<users, chats, messages, clock, session, dialog, keyboards, qualityFlag, removed>>

\* mutant of TextComplete: the empty answer is not checked for
TextComplete_NoCheck(i, answer) ==
    /\ Running(i, "text", "complete")
    /\ Set(i, [pc |-> "createAssistantMessage",
               model |-> handler[i].userModel, answer |-> answer,
               trace |-> Append(handler[i].trace, "completion")])
    /\ UNCHANGED <<users, chats, messages, clock, session, dialog, keyboards, qualityFlag, removed>>

\* a completion that is always requested with the default model
TextComplete_DefaultModel(i, answer) ==
    /\ Running(i, "text", "complete")
    /\ IF answer = ""
       THEN Set(i, [pc |-> "done", outcome |-> "generationFailed",
                    model |-> DefaultModel, answer |-> answer,
                    trace |-> Append(handler[i].trace, "completion"),
                    placeholder |-> "generationFailed"])
       ELSE Set(i, [pc |-> "createAssistantMessage",
                    model |-> DefaultModel, answer |-> answer,
                    trace |-> Append(handler[i].trace, "completion")])
    /\ UNCHANGED <<users, chats, messages, clock, session, dialog, keyboards, qualityFlag, removed>>

\* answer = await answerWithChatGPT(history, telegramId, user.selectedModel);
\* if (!answer) edit the placeholder to the generation failure text and return
TextComplete(i, answer) ==
    /\ Running(i, "text", "complete")
    /\ IF answer = ""
       THEN Set(i, [pc |-> "done", outcome |-> "generationFailed",
                    model |-> handler[i].userModel, answer |-> answer,
                    trace |-> Append(handler[i].trace, "completion"),
                    placeholder |-> "generationFailed"])
       ELSE Set(i, [pc |-> "createAssistantMessage",
                    model |-> handler[i].userModel, answer |-> answer,
                    trace |-> Append(handler[i].trace, "completion")])
    /\ UNCHANGED <<users, chats, messages, clock, session, dialog, keyboards, qualityFlag, removed>>

\* mutant of TextCreateAssistantMessage: the user's text is stored as the reply
TextCreateAssistantMessage_WrongContent(i) ==
    /\ Running(i, "text", "createAssistantMessage")
    /\ \/ CreateMessage(i, "assistant", handler[i].text, "save")
       \/ /\ TextCatch(i)
          /\ UNCHANGED <<messages, clock>>
    /\ UNCHANGED <<users, chats, session, dialog, keyboards, qualityFlag, removed>>

\* await Message.create({ ..., role: 'assistant', content: answer })
TextCreateAssistantMessage(i) ==
    /\ Running(i, "text", "createAssistantMessage")
    /\ \/ CreateMessage(i, "assistant", handler[i].answer, "save")
       \/ /\ TextCatch(i)
          /\ UNCHANGED <<messages, clock>>
    /\ UNCHANGED <<users, chats, session, dialog, keyboards, qualityFlag, removed>>

\* chat.updatedAt = new Date(); await chat.save(): throws when the document is gone
TextSaveChat(i) ==
    /\ Running(i, "text", "save")
    /\ \/ /\ ChatById(handler[i].chat) # {}
          /\ chats' = {IF c.id = handler[i].chat THEN [c EXCEPT !.updatedAt = clock] ELSE c
                       : c \in chats}
          /\ Set(i, [pc |-> "edit", trace |-> Append(handler[i].trace, "bump")])
       \/ /\ TextCatch(i)
          /\ UNCHANGED chats
    /\ UNCHANGED <<users, messages, clock, session, dialog, keyboards, qualityFlag, removed>>

\* await responseMessage.editText(answer)
TextEdit(i) ==
    /\ Running(i, "text", "edit")
    /\ Set(i, [pc |-> "done", outcome |-> "ok", placeholder |-> handler[i].answer,
               trace |-> Append(handler[i].trace, "edit")])
    /\ UNCHANGED <<users, chats, messages, clock, session, dialog, keyboards, qualityFlag, removed>>

\* a Chat document is removed from the store by something other than the bot:
\* the case the handler's "chat not found" branch provides for
ChatRemoved(c) ==
    /\ c \in chats
    /\ removed < MaxRemoved
    /\ removed' = removed + 1
    /\ chats' = chats \ {c}
    /\ UNCHANGED <<users, messages, clock, session, dialog, keyboards, qualityFlag, handler>>

----------------------------------------------------------------------------
(* bot.callbackQuery(Object.keys(AiModelsLabels)): a model button is pressed *)

\* isValidAiModel, src/types/typeguards
IsValidAiModel(m) == m \in Models

\* the callback arrives; answerCallbackQuery; an invalid identifier is answered
\* with the corrective message
ModelCallback(i, s, data) ==
    /\ Free(i)
    /\ IF ~IsValidAiModel(data)
       THEN Begin(i, [kind |-> "model", pc |-> "done", from |-> s[1], conv |-> s[2],
                      data |-> data, sessionBefore |-> session[s[2]].chatId,
                      outcome |-> "invalidModel", sent |-> <<"invalidModel">>])
       ELSE Begin(i, [kind |-> "model", pc |-> "findUser", from |-> s[1], conv |-> s[2],
                      data |-> data, sessionBefore |-> session[s[2]].chatId])
    /\ UNCHANGED <<users, chats, messages, clock, session, dialog, keyboards, qualityFlag, removed>>

\* the catch block of the model callback
ModelCatch(i) ==
    Set(i, [pc |-> "done", outcome |-> "error",
            sent |-> Append(handler[i].sent, "modelError")])

\* const user = await User.findOne({ telegramId: id }); if (!user) reply and return
ModelFindUser(i) ==
    /\ Running(i, "model", "findUser")
    /\ \/ \E u \in UsersWith(handler[i].from) :
             Set(i, [pc |-> "save", userId |-> u.id, existed |-> "yes"])
       \/ /\ UsersWith(handler[i].from) = {}
          /\ Set(i, [pc |-> "done", outcome |-> "userNotFound", existed |-> "no",
                     sent |-> Append(handler[i].sent, "pleaseStart")])
       \/ ModelCatch(i)
    /\ UNCHANGED <<users, chats, messages, clock, session, dialog, keyboards, qualityFlag, removed>>

\* a save that writes the selection to every User
ModelSave_AllUsers(i) ==
    /\ Running(i, "model", "save")
    /\ \/ /\ users' = {[u EXCEPT !.selectedModel = handler[i].data] : u \in users}
          /\ Set(i, [pc |-> "done", outcome |-> "ok",
                     sent |-> Append(handler[i].sent, "switched")])
       \/ /\ ModelCatch(i)
          /\ UNCHANGED users
    /\ UNCHANGED <<chats, messages, clock, session, dialog, keyboards, qualityFlag, removed>>

\* user.selectedModel = selectedModel; await user.save(); editText(<switched>)
ModelSave(i) ==
    /\ Running(i, "model", "save")
    /\ \/ /\ users' = {IF u.id = handler[i].userId
                         THEN [u EXCEPT !.selectedModel = handler[i].data] ELSE u
                       : u \in users}
          /\ Set(i, [pc |-> "done", outcome |-> "ok",
                     sent |-> Append(handler[i].sent, "switched")])
       \/ /\ ModelCatch(i)
          /\ UNCHANGED users
    /\ UNCHANGED <<chats, messages, clock, session, dialog, keyboards, qualityFlag, removed>>

----------------------------------------------------------------------------
(* The image dialog: /image, the quality buttons, the cancel button and      *)
(* imageConversation (src/conversations/imageConversation).                  *)

\* isValidImageGenerationQuality, src/types/typeguards
IsValidImageGenerationQuality(q) == q \in Qualities

\* the data a quality button carries: Object.values(ImageGenerationQuality)
QualityButtons == Qualities

\* an update is handled only when the one before it has been handled
Generating == \E c \in Convs : dialog[c].state = "Generating"

\* ctx.conversation.enter('imageConversation'): the dialog awaits the prompt
Enter(c, pressed) ==
    dialog' = [dialog EXCEPT ![c] =
                  [state |-> "AwaitingPrompt", pressed |-> pressed, calls |-> <<>>]]

\* ctx.conversation.exit('imageConversation'): the dialog of the session ends
Exit(c) ==
    dialog' = [dialog EXCEPT ![c] =
                  [state |-> "Cancelled", pressed |-> "none", calls |-> <<>>]]

\* an /image that enters the dialog whether or not quality selection is enabled
ImageCommand_AlwaysEnters(s) ==
    /\ ~Generating
    /\ Enter(s[2], "none")
    /\ \/ /\ ~qualityFlag
          /\ UNCHANGED keyboards
       \/ /\ qualityFlag
          /\ keyboards[s[2]] < MaxKeyboards
          /\ keyboards' = [keyboards EXCEPT ![s[2]] = @ + 1]
    /\ UNCHANGED <<users, chats, messages, clock, session, qualityFlag, removed, handler>>

\* bot.command('image'): enter the dialog, or show the quality keyboard
ImageCommand(s) ==
    /\ ~Generating
    /\ \/ /\ ~qualityFlag
          /\ Enter(s[2], "none")
          /\ UNCHANGED keyboards
       \/ /\ qualityFlag
          /\ keyboards[s[2]] < MaxKeyboards
          /\ keyboards' = [keyboards EXCEPT ![s[2]] = @ + 1]
          /\ UNCHANGED dialog
    /\ UNCHANGED <<users, chats, messages, clock, session, qualityFlag, removed, handler>>

\* mutant of QualityCallback: the quality is not stored in the session
QualityCallback_NotStored(s, quality) ==
    /\ ~Generating
    /\ keyboards[s[2]] > 0
    /\ keyboards' = [keyboards EXCEPT ![s[2]] = @ - 1]
    /\ IF ~IsValidImageGenerationQuality(quality)
       THEN UNCHANGED <<session, dialog>>
       ELSE /\ UNCHANGED session
            /\ Enter(s[2], quality)
    /\ UNCHANGED <<users, chats, messages, clock, qualityFlag, removed, handler>>

\* a quality callback that stores "hd" whatever was pressed
QualityCallback_StoresHd(s, quality) ==
    /\ ~Generating
    /\ keyboards[s[2]] > 0
    /\ keyboards' = [keyboards EXCEPT ![s[2]] = @ - 1]
    /\ IF ~IsValidImageGenerationQuality(quality)
       THEN UNCHANGED <<session, dialog>>
       ELSE /\ session' = [session EXCEPT ![s[2]].imageQuality = "hd"]
            /\ Enter(s[2], quality)
    /\ UNCHANGED <<users, chats, messages, clock, qualityFlag, removed, handler>>

\* bot.callbackQuery(Object.values(ImageGenerationQuality)): a quality button is pressed;
\* editText without a keyboard removes the keyboard from the message
QualityCallback(s, quality) ==
    /\ ~Generating
    /\ keyboards[s[2]] > 0
    /\ keyboards' = [keyboards EXCEPT ![s[2]] = @ - 1]
    /\ IF ~IsValidImageGenerationQuality(quality)
       THEN UNCHANGED <<session, dialog>>
       ELSE /\ session' = [session EXCEPT ![s[2]].imageQuality = quality]
            /\ Enter(s[2], quality)
    /\ UNCHANGED <<users, chats, messages, clock, qualityFlag, removed, handler>>

\* bot.callbackQuery('cancelImageGeneration'): the cancel button of a keyboard is pressed
CancelCallback(s) ==
    /\ ~Generating
    /\ keyboards[s[2]] > 0
    /\ keyboards' = [keyboards EXCEPT ![s[2]] = @ - 1]
    /\ Exit(s[2])
    /\ UNCHANGED <<users, chats, messages, clock, session, qualityFlag, removed, handler>>

\* the dialog receives the next text message as the prompt and calls the image API
\* with the session's quality
PromptMessage(s) ==
    /\ ~Generating
    /\ dialog[s[2]].state = "AwaitingPrompt"
    /\ dialog' = [dialog EXCEPT ![s[2]] =
                     [@ EXCEPT !.state = "Generating",
                               !.calls = Append(@, session[s[2]].imageQuality)]]
    /\ UNCHANGED <<users, chats, messages, clock, session, keyboards, qualityFlag,
                   removed, handler>>

\* the image API answers: the image is sent, or the error message
ImageResult(c, result) ==
    /\ dialog[c].state = "Generating"
    /\ dialog' = [dialog EXCEPT ![c].state = result]
    /\ UNCHANGED <<users, chats, messages, clock, session, keyboards, qualityFlag,
                   removed, handler>>

----------------------------------------------------------------------------
(* Specifications *)

StartStep(i) == StartFindUser(i) \/ StartCreateUser(i) \/ StartCreateChat(i)
NewchatStep(i) == NewchatFindUser(i) \/ NewchatCreateChat(i)
TextStep(i) ==
    \/ TextFindUser(i)
    \/ TextFindLatest(i)
    \/ TextFindById(i)
    \/ TextCreateUserMessage(i)
    \/ TextFindMessages(i)
    \/ \E answer \in Answers : TextComplete(i, answer)
    \/ TextCreateAssistantMessage(i)
    \/ TextSaveChat(i)
    \/ TextEdit(i)
ModelStep(i) == ModelFindUser(i) \/ ModelSave(i)

\* bot.start() polls and handles one update at a time: slot 1 runs every handler
Main == CHOOSE i \in Handlers : \A j \in Handlers : i <= j

Next ==
    \/ \E s \in Senders : StartCommand(Main, s)
    \/ StartStep(Main)
    \/ \E s \in Senders : NewchatCommand(Main, s)
    \/ NewchatStep(Main)
    \/ \E s \in Senders, text \in Texts : TextMessage(Main, s, text)
    \/ TextStep(Main)
    \/ \E c \in chats : ChatRemoved(c)

\* the handlers of /start, /newchat and text messages do not read the quality flag
InitChat == Init /\ ~qualityFlag

Spec == InitChat /\ [][Next]_vars

\* two updates of one platform user in one conversation handled at once: the
\* handlers interleave at their awaited calls
RaceSenders == {<<1, 1>>}

NextInterleaved ==
    \/ \E i \in Handlers, s \in RaceSenders : Slot(i) /\ StartCommand(i, s)
    \/ \E i \in Handlers : StartStep(i)
    \/ \E i \in Handlers, s \in RaceSenders, text \in Texts :
          Slot(i) /\ TextMessage(i, s, text)
    \/ \E i \in Handlers : TextStep(i)

SpecInterleaved == InitChat /\ [][NextInterleaved]_vars

\* model selection: /start, text messages and model buttons, one update at a time
NextModel ==
    \/ \E s \in Senders : StartCommand(Main, s)
    \/ StartStep(Main)
    \/ \E s \in Senders, text \in Texts : TextMessage(Main, s, text)
    \/ TextStep(Main)
    \/ \E s \in Senders, data \in ModelButtons : ModelCallback(Main, s, data)
    \/ ModelStep(Main)

SpecModel == InitChat /\ [][NextModel]_vars

NextImage ==
    \/ \E s \in Senders : ImageCommand(s)
    \/ \E s \in Senders, quality \in QualityButtons : QualityCallback(s, quality)
    \/ \E s \in Senders : CancelCallback(s)
    \/ \E s \in Senders : PromptMessage(s)
    \/ \E c \in Convs, result \in {"Delivered", "Failed"} : ImageResult(c, result)

SpecImage == Init /\ [][NextImage]_vars

----------------------------------------------------------------------------
(* Properties *)

Range(f) == {f[k] : k \in DOMAIN f}
IsPrefix(a, b) == Len(a) <= Len(b) /\ SubSeq(b, 1, Len(a)) = a
Done(i, kind) == handler[i].kind = kind /\ handler[i].pc = "done"
UserIds(telegramId) == {u.id : u \in UsersWith(telegramId)}
\* the store holds no Chat of a User of this platform user
NoChatFor(telegramId) == \A c \in chats : c.userId \notin UserIds(telegramId)

\* what every finished /start has done, whether or not a database call failed
StartCreatesAtMostOneUser(i) ==
    /\ Cardinality(handler[i].newUsers) <= 1
    /\ handler[i].newUsers # {} => UserIds(handler[i].from) \subseteq handler[i].newUsers

\* C1 as stated: every /start creates exactly one new Chat, and a new User only
\* when no User with the caller's platform identifier existed beforehand.
C1_EveryStartCreatesOneChat ==
    \A i \in Handlers : Done(i, "start") =>
        /\ Cardinality(handler[i].newChats) = 1
        /\ StartCreatesAtMostOneUser(i)

\* C1 amended: every /start whose database calls all succeed creates exactly one
\* new Chat, owned by the caller's User; every /start creates at most one User,
\* and only when no User with the caller's platform identifier existed
\* beforehand; a /start in which a database call fails creates no Chat.
C1_StartCreatesOneChatUnlessDbFails ==
    \A i \in Handlers : Done(i, "start") =>
        /\ handler[i].outcome \in {"ok", "error"}
        /\ StartCreatesAtMostOneUser(i)
        /\ handler[i].outcome = "ok" =>
              /\ Cardinality(handler[i].newChats) = 1
              /\ UsersWith(handler[i].from) # {}
              /\ removed = 0 =>
                    \E c \in chats : /\ c.id \in handler[i].newChats
                                     /\ c.userId \in UserIds(handler[i].from)
        /\ handler[i].outcome = "error" => handler[i].newChats = {}

\* a /start of a registered platform user has finished: one Chat, no new User
C1_Witness ==
    \E i \in Handlers :
        /\ Done(i, "start") /\ handler[i].outcome = "ok"
        /\ handler[i].existed = "yes" /\ handler[i].newUsers = {}
        /\ Cardinality(handler[i].newChats) = 1

NewchatChangedNothing(i) ==
    /\ handler[i].newChats = {}
    /\ handler[i].newUsers = {}
    /\ session[handler[i].conv].chatId = handler[i].sessionBefore

\* C2 as stated: /newchat of a platform user without a User record replies with
\* the "please /start" correction, creates no Chat and no User and leaves the
\* session's active chat identifier unchanged.
C2_NewchatWithoutUserCorrects ==
    \A i \in Handlers : Done(i, "newchat") /\ UsersWith(handler[i].from) = {} =>
        /\ handler[i].sent = <<"pleaseStart">>
        /\ NewchatChangedNothing(i)

\* C2 amended: /newchat of a platform user without a User record creates no Chat
\* and no User and leaves the session's active chat identifier unchanged; it
\* replies with the "please /start" correction when the user lookup succeeds,
\* and with the handler's generic error message when the lookup fails.
C2_NewchatWithoutUserCreatesNothing ==
    \A i \in Handlers : Done(i, "newchat") /\ UsersWith(handler[i].from) = {} =>
        /\ \/ handler[i].outcome = "userNotFound" /\ handler[i].sent = <<"pleaseStart">>
           \/ handler[i].outcome = "error" /\ handler[i].sent = <<"newchatError">>
        /\ NewchatChangedNothing(i)

\* a /newchat of an unregistered platform user has been answered with the correction
C2_Witness ==
    \E i \in Handlers :
        /\ Done(i, "newchat") /\ handler[i].outcome = "userNotFound"
        /\ UsersWith(handler[i].from) = {}

\* a step of a text handler that started without an active chat, while the
\* store holds no Chat of the sender's User
StepWithoutChat(i, endings) ==
    /\ handler[i].kind = "text" /\ handler[i].pc # "done"
    /\ handler[i].chatId = 0
    /\ UsersWith(handler[i].from) # {}
    /\ NoChatFor(handler[i].from)
    /\ handler'[i] # handler[i]
    => /\ messages' = messages
       /\ session' = session
       /\ handler'[i].newMsgs = <<>>
       /\ "completion" \notin Range(handler'[i].trace)
       /\ handler'[i].pc \in {"findLatest", "done"}
       /\ handler'[i].pc = "done" =>
             /\ handler'[i].placeholder \in endings
             /\ handler'[i].sent = <<>>
       /\ handler[i].pc = "findLatest" => handler'[i].pc = "done"

\* C3 as stated: a text message handled with no active chat in the session and no
\* Chat of the sender's User in the store ends with the placeholder edited to
\* the "please /start" message, writes no Message, requests no completion and
\* leaves the session's active chat identifier unset.
C3_NoChatEndsWithPleaseStart ==
    [][\A i \in Handlers : StepWithoutChat(i, {"pleaseStart"})]_vars

\* C3 amended: such a message writes no Message, requests no completion and
\* leaves the session's active chat identifier unset; the placeholder is edited
\* to the "please /start" message when the lookups succeed, and to the
\* processing-error message when a lookup fails.
C3_NoChatWritesNothing ==
    [][\A i \in Handlers : StepWithoutChat(i, {"pleaseStart", "processingError"})]_vars

\* a text message of a registered user without any chat has been answered
C3_Witness ==
    \E i \in Handlers :
        /\ Done(i, "text") /\ handler[i].outcome = "noChat"
        /\ handler[i].placeholder = "pleaseStart"
        /\ session[handler[i].conv].chatId = 0

\* C4: when the completion request returns the empty result, the handler ends
\* with the placeholder edited to the generation-failure text, the user's
\* Message persisted in the chat and no assistant Message persisted for the
\* exchange.
C4_EmptyAnswerKeepsUserMessageOnly ==
    \A i \in Handlers :
        /\ Done(i, "text")
        /\ "completion" \in Range(handler[i].trace)
        /\ handler[i].answer = ""
        => /\ handler[i].placeholder = "generationFailed"
           /\ handler[i].sent = <<>>
           /\ Len(handler[i].newMsgs) = 1
           /\ \E m \in messages :
                 /\ m.id = handler[i].newMsgs[1]
                 /\ m.chatId = handler[i].chat
                 /\ m.role = "user"
                 /\ m.content = handler[i].text
           /\ \A m \in messages :
                 m.createdAt > handler[i].newMsgs[1] => m.role # "assistant"

\* a text handler has ended after an empty completion result
C4_Witness ==
    \E i \in Handlers :
        /\ Done(i, "text") /\ handler[i].outcome = "generationFailed"
        /\ handler[i].answer = ""

\* C5: the history passed to the completion request of a chat holding M
\* messages is all M messages in ascending creation order when M <= N, and the
\* last N messages, contiguous and in ascending creation order, when M > N.
C5_HistoryIsLastN ==
    \A i \in Handlers : Running(i, "text", "complete") =>
        LET all == {m \in messages : m.chatId = handler[i].chat}
            h == handler[i].history
        IN  /\ Len(h) = Min(Cardinality(all), MAX_HISTORY_LENGTH)
            /\ Range(h) \subseteq all
            /\ \A k \in 1..(Len(h) - 1) : h[k].createdAt < h[k + 1].createdAt
            /\ \A m \in all \ Range(h) : \A k \in 1..Len(h) : m.createdAt < h[k].createdAt

\* a completion is about to be requested for a chat that holds more than N messages
C5_Witness ==
    \E i \in Handlers :
        /\ Running(i, "text", "complete")
        /\ Cardinality({m \in messages : m.chatId = handler[i].chat}) > MAX_HISTORY_LENGTH

\* the steps by which the image dialog of conversation c calls the image API
DialogCallsOnceWithPressedQuality(c) ==
    /\ dialog[c].state = "Cancelled" => dialog'[c].calls = <<>>
    /\ keyboards'[c] < keyboards[c] /\ dialog'[c].state = "Cancelled" =>
          dialog'[c].calls = <<>>
    /\ dialog'[c].calls # dialog[c].calls /\ dialog'[c].calls # <<>> =>
          /\ dialog[c].state = "AwaitingPrompt"
          /\ dialog'[c].state = "Generating"
          /\ Len(dialog'[c].calls) = 1
          /\ dialog[c].pressed # "none" => dialog'[c].calls = <<dialog[c].pressed>>
    /\ dialog[c].state = "AwaitingPrompt" /\ dialog'[c].state = "Generating" =>
          Len(dialog'[c].calls) = 1
    /\ dialog[c].state = "Generating" /\ dialog'[c].state \in {"Delivered", "Failed"} =>
          dialog'[c].calls = dialog[c].calls

\* C6: pressing cancel at the quality-selection step never leads to a call of
\* the image API for that dialog; pressing a quality button and then
\* submitting a prompt leads to exactly one call of the image API, made with
\* the quality that was pressed.
C6_CancelNeverCallsQualityCallsOnce ==
    [][\A c \in Convs : DialogCallsOnceWithPressedQuality(c)]_vars

\* a dialog entered by the "hd" button has delivered its image after one call
C6_Witness ==
    \E c \in Convs :
        /\ dialog[c].state = "Delivered"
        /\ dialog[c].pressed = "hd"
        /\ dialog[c].calls = <<"hd">>

TextOrder == <<"placeholder", "user", "completion", "assistant", "bump", "edit">>

\* the exchange of a finished text handler: two Messages in its chat, the user's
\* text and then the reply, and the placeholder showing the reply
ExchangePersisted(i) ==
    /\ handler[i].trace = TextOrder
    /\ Len(handler[i].newMsgs) = 2
    /\ \E m, a \in messages :
          /\ m.id = handler[i].newMsgs[1] /\ a.id = handler[i].newMsgs[2]
          /\ m.chatId = handler[i].chat /\ a.chatId = handler[i].chat
          /\ m.role = "user" /\ m.content = handler[i].text
          /\ a.role = "assistant" /\ a.content = handler[i].answer
          /\ m.createdAt < a.createdAt
    /\ \A c \in chats : c.id = handler[i].chat => c.updatedAt >= handler[i].newMsgs[2]
    /\ handler[i].placeholder = handler[i].answer
    /\ handler[i].sent = <<>>

\* C7 as stated: for a text message of a registered user with a resolvable chat
\* and a non-empty completion result the handler sends the placeholder,
\* persists the user Message, requests the completion, persists the assistant
\* Message, bumps the chat's updated timestamp and edits the placeholder to the
\* reply, in this order; exactly two Messages are added to the chat.
C7_ExchangeInOrder ==
    \A i \in Handlers : Done(i, "text") /\ handler[i].answer # "" => ExchangePersisted(i)

\* C7 amended: ... performs these steps in this order as long as no database
\* call fails, and when all succeed exactly two Messages (the user's text, then
\* the reply) are added to the chat; when persisting the assistant Message or
\* saving the chat fails, the remaining steps are skipped and the placeholder
\* is edited to the processing-error message.
C7_ExchangeInOrderUnlessDbFails ==
    \A i \in Handlers : handler[i].kind = "text" /\ handler[i].answer # "" =>
        /\ IsPrefix(handler[i].trace, TextOrder)
        /\ Len(handler[i].trace) >= 3
        /\ handler[i].pc = "done" =>
              \/ handler[i].outcome = "ok" /\ ExchangePersisted(i)
              \/ /\ handler[i].outcome = "error"
                 /\ handler[i].placeholder = "processingError"
                 /\ Len(handler[i].newMsgs) \in {1, 2}
                 /\ \A k \in 1..Len(handler[i].newMsgs) :
                       \E m \in messages :
                          /\ m.id = handler[i].newMsgs[k]
                          /\ m.chatId = handler[i].chat
                          /\ m.role = IF k = 1 THEN "user" ELSE "assistant"
                          /\ m.content = IF k = 1 THEN handler[i].text ELSE handler[i].answer

\* an exchange has been completed: both Messages persisted, the placeholder edited
C7_Witness ==
    \E i \in Handlers :
        /\ Done(i, "text") /\ handler[i].outcome = "ok"
        /\ handler[i].answer = "reply"
        /\ ExchangePersisted(i)

\* C8: every outcome of the text handler is delivered by editing the "loading"
\* placeholder, never by sending another message, and no handler run ends
\* with the placeholder still showing the loading text.
C8_EveryOutcomeEditsPlaceholder ==
    \A i \in Handlers : Done(i, "text") =>
        /\ handler[i].placeholder \notin {"none", "loading"}
        /\ handler[i].sent = <<>>

C10_NoCancelOnceEntered ==
    [][\A c \in Convs :
          dialog[c].state \in {"AwaitingPrompt", "Generating"} =>
              dialog'[c].state # "Cancelled"]_vars

----------------------------------------------------------------------------
(* Model selection *)

\* the Users as they are once the caller's User has selected this model
WithModel(us, telegramId, model) ==
    {IF u.telegramId = telegramId THEN [u EXCEPT !.selectedModel = model] ELSE u
       : u \in us}

\* C11 as stated: a finished model callback with a valid identifier from a
\* registered platform user has set that User's selected model to exactly that
\* identifier.
C11_ValidCallbackSetsModel ==
    \A i \in Handlers :
        (Done(i, "model") /\ IsValidAiModel(handler[i].data)
                          /\ UsersWith(handler[i].from) # {}) =>
            \A u \in UsersWith(handler[i].from) : u.selectedModel = handler[i].data

\* C11 amended: no step of a model callback changes a Chat, a Message or a
\* session; a callback with a valid identifier from a registered platform user
\* ends either confirmed, and then its last step has set that User's selected
\* model to exactly that identifier and changed nothing else of any User, or,
\* when a database call failed, with the generic error and every User as
\* before; an identifier that fails validation is answered with the corrective
\* message and no User changes.
C11_CallbackSetsOnlyCallersModel ==
    [][\A i \in Handlers :
          (handler'[i].kind = "model" /\ handler'[i] # handler[i]) =>
              /\ chats' = chats /\ messages' = messages /\ session' = session
              /\ IF handler[i].kind = "model" /\ handler'[i].outcome = "ok"
                 THEN users' = WithModel(users, handler'[i].from, handler'[i].data)
                 ELSE users' = users
              /\ ~IsValidAiModel(handler'[i].data) =>
                    /\ handler'[i].pc = "done"
                    /\ handler'[i].outcome = "invalidModel"
                    /\ handler'[i].sent = <<"invalidModel">>
              /\ (/\ handler'[i].pc = "done"
                  /\ IsValidAiModel(handler'[i].data)
                  /\ UsersWith(handler'[i].from) # {}) =>
                    \/ /\ handler'[i].outcome = "ok"
                       /\ handler'[i].sent = <<"switched">>
                    \/ /\ handler'[i].outcome = "error"
                       /\ handler'[i].sent = <<"modelError">>]_vars

\* a registered platform user has switched away from the default model while
\* another User, with Chats and Messages in the store, kept the default
C11_Witness ==
    \E i \in Handlers :
        /\ Done(i, "model") /\ handler[i].outcome = "ok"
        /\ handler[i].data # DefaultModel
        /\ \E u \in UsersWith(handler[i].from) : u.selectedModel = handler[i].data
        /\ \E v \in users : /\ v.telegramId # handler[i].from
                             /\ v.selectedModel = DefaultModel
        /\ messages # {}

----------------------------------------------------------------------------
(* Active chat resolution *)

\* the handler has just written its user Message
WritesUserMessage(i) ==
    /\ handler'[i].kind = "text" /\ handler[i].kind = "text"
    /\ handler[i].newMsgs = <<>> /\ Len(handler'[i].newMsgs) = 1

\* the Chats of the platform user's User that no other of its Chats is newer than
NewestChatsOf(telegramId) ==
    {c \in chats : /\ c.userId \in UserIds(telegramId)
                   /\ \A d \in chats : d.userId = c.userId => d.createdAt <= c.createdAt}

\* C12: a text handler that found an active chat identifier in the session
\* writes its user Message to the Chat with that identifier; one that found none
\* resolves the sender's Chat with the greatest creation time, sets the
\* session's active chat identifier to it in the resolving step, and writes its
\* user Message to that Chat, the session still naming it at the write.
C12_MessageWrittenToResolvedChat ==
    [][\A i \in Handlers :
          /\ (handler'[i].kind = "text" /\ handler'[i].pc = "findById") =>
                handler'[i].sessionBefore # 0
          /\ (handler'[i].kind = "text" /\ handler'[i].pc = "findLatest") =>
                handler'[i].sessionBefore = 0
          /\ (/\ handler[i].kind = "text" /\ handler[i].pc = "findLatest"
              /\ handler'[i].pc = "createUserMessage") =>
                \E c \in NewestChatsOf(handler[i].from) :
                   /\ handler'[i].chat = c.id
                   /\ session'[handler[i].conv].chatId = c.id
                   /\ messages' = messages
          /\ (/\ handler[i].kind = "text" /\ handler[i].pc = "findById"
              /\ handler'[i].pc = "createUserMessage") =>
                /\ handler'[i].chat = handler[i].sessionBefore
                /\ \E c \in chats : c.id = handler[i].sessionBefore
          /\ WritesUserMessage(i) =>
                \E m \in messages' :
                   /\ messages' = messages \cup {m} /\ m \notin messages
                   /\ m.id = handler'[i].newMsgs[1]
                   /\ m.role = "user" /\ m.content = handler[i].text
                   /\ m.chatId = handler[i].chat
                   /\ session[handler[i].conv].chatId = m.chatId
                   /\ handler[i].sessionBefore # 0 => m.chatId = handler[i].sessionBefore]_vars

\* a registered platform user with two Chats wrote in a session that held no
\* active chat: the user Message is in the newer Chat and the session names it
C12_Witness ==
    \E i \in Handlers :
        /\ handler[i].kind = "text" /\ handler[i].sessionBefore = 0
        /\ Len(handler[i].newMsgs) >= 1
        /\ \E c, d \in chats :
              /\ c.userId = handler[i].userId /\ d.userId = handler[i].userId
              /\ d.createdAt < c.createdAt
              /\ session[handler[i].conv].chatId = c.id
              /\ \E m \in messages : m.id = handler[i].newMsgs[1] /\ m.chatId = c.id

----------------------------------------------------------------------------
(* The active chat of a session *)

\* handler i has just finished a successful /start or /newchat
CreatesChat(i) ==
    /\ handler[i].kind \in {"start", "newchat"} /\ handler[i].pc # "done"
    /\ handler'[i] # handler[i]
    /\ handler'[i].pc = "done" /\ handler'[i].outcome = "ok"

\* C13: a successful /start or /newchat leaves the session's active chat
\* identifier equal to the identifier of the Chat it has just created; an
\* active chat identifier, once set, is changed by nothing but a successful
\* /start or /newchat in that session; and every Message a text handler
\* writes goes to the Chat the session names at that moment, so to the Chat of
\* the last successful /start or /newchat and to no earlier one.
C13_MessagesGoToLastCreatedChat ==
    [][\A i \in Handlers :
          /\ CreatesChat(i) =>
                \E c \in chats' \ chats :
                   /\ chats' = chats \cup {c}
                   /\ handler'[i].newChats = {c.id}
                   /\ session'[handler[i].conv].chatId = c.id
                   /\ \A d \in chats : d.createdAt < c.createdAt /\ d.id # c.id
          /\ \A c \in Convs :
                (session[c].chatId # 0 /\ session'[c].chatId # session[c].chatId) =>
                   \E j \in Handlers : CreatesChat(j) /\ handler[j].conv = c
          /\ (/\ handler[i].kind = "text" /\ handler'[i].kind = "text"
              /\ Len(handler'[i].newMsgs) > Len(handler[i].newMsgs)) =>
                /\ session'[handler[i].conv].chatId = session[handler[i].conv].chatId
                /\ \A m \in messages' \ messages :
                      m.chatId = session[handler[i].conv].chatId]_vars

\* after /start and /newchat in one session, a text message of that session
\* has been answered: both Messages are in the Chat of the /newchat, the newer
\* one, and none is in the Chat of the /start
C13_Witness ==
    \E i \in Handlers :
        /\ Done(i, "text") /\ handler[i].outcome = "ok"
        /\ handler[i].sessionBefore # 0
        /\ session[handler[i].conv].chatId = handler[i].sessionBefore
        /\ \E c, d \in chats :
              /\ c.id = handler[i].sessionBefore
              /\ d.userId = c.userId /\ d.createdAt < c.createdAt
              /\ \A m \in messages : m.chatId = c.id
        /\ Cardinality(messages) = 2

----------------------------------------------------------------------------
(* Ownership *)

\* C14: each persisted Message's owning User is the owning User of the Chat
\* the Message belongs to, for platform users sharing a session or not.
C14_MessageOwnerIsChatOwner ==
    \A m \in messages : \A c \in chats : c.id = m.chatId => c.userId = m.userId

----------------------------------------------------------------------------
(* Database failures in /start and /newchat *)

Last(q) == q[Len(q)]

\* C15: a /start or /newchat in which a database call failed has ended in its
\* catch block: the last message sent is the handler's generic error, it has
\* created no Chat, and the session's active chat identifier is what it was
\* when the handler began; no such handler ends in any other way than
\* success, the /start prompt or the generic error.
C15_DbFailureLeavesSession ==
    \A i \in Handlers : (Done(i, "start") \/ Done(i, "newchat")) =>
        /\ handler[i].outcome \in {"ok", "error", "userNotFound"}
        /\ handler[i].outcome = "error" =>
              /\ handler[i].sent # <<>>
              /\ Last(handler[i].sent) =
                    (IF handler[i].kind = "start" THEN "startError" ELSE "newchatError")
              /\ handler[i].newChats = {}
              /\ session[handler[i].conv].chatId = handler[i].sessionBefore
        /\ handler[i].outcome # "ok" =>
              session[handler[i].conv].chatId = handler[i].sessionBefore

\* in a session that names a Chat, a /start has created the caller's User and
\* then failed to create the Chat: the session still names the earlier Chat
C15_Witness ==
    \E i \in Handlers :
        /\ Done(i, "start") /\ handler[i].outcome = "error"
        /\ handler[i].newUsers # {}
        /\ handler[i].sessionBefore # 0
        /\ session[handler[i].conv].chatId = handler[i].sessionBefore
        /\ "startError" \in Range(handler[i].sent)

----------------------------------------------------------------------------
(* Entry into the image dialog *)

\* the dialog of session c has just been entered
Entered(c) == dialog'[c].state = "AwaitingPrompt" /\ dialog'[c] # dialog[c]

\* C16: the image dialog is entered either with quality selection disabled, by
\* a step that takes no keyboard and records no pressed quality (the /image
\* command), or with quality selection enabled, by a step that uses up a
\* quality keyboard of that session and records a valid pressed quality (the
\* quality callback); a step that presents a quality keyboard happens only
\* with quality selection enabled and enters no dialog.
C16_DialogEnteredOnlyTwoWays ==
    [][\A c \in Convs :
          /\ Entered(c) =>
                \/ /\ ~qualityFlag
                   /\ keyboards' = keyboards
                   /\ dialog'[c].pressed = "none"
                \/ /\ qualityFlag
                   /\ keyboards[c] > 0 /\ keyboards'[c] = keyboards[c] - 1
                   /\ IsValidImageGenerationQuality(dialog'[c].pressed)
          /\ keyboards'[c] > keyboards[c] =>
                qualityFlag /\ dialog' = dialog /\ session' = session]_vars

\* with quality selection enabled: /image twice, one keyboard answered with
\* "hd": the dialog awaits the prompt and the other keyboard is still shown
C16_Witness ==
    \E c \in Convs :
        /\ qualityFlag
        /\ dialog[c].state = "AwaitingPrompt" /\ dialog[c].pressed = "hd"
        /\ keyboards[c] = 1

----------------------------------------------------------------------------
(* Updates of platform users without a User *)

\* handler i, a text handler or a model callback, serves a platform user who
\* has no User
Unregistered(i) ==
    /\ handler[i].kind \in {"text", "model"}
    /\ UsersWith(handler[i].from) = {}

\* C17 as stated: a text message or a model callback (here: one with a valid
\* identifier) of a platform user without a User ends with the prompt to
\* /start only, having written nothing and requested no completion.
C17_UnregisteredOnlyPrompted ==
    \A i \in Handlers :
      (/\ Unregistered(i) /\ handler[i].pc = "done"
       /\ handler[i].kind = "model" => IsValidAiModel(handler[i].data)) =>
        /\ handler[i].outcome = "userNotFound"
        /\ handler[i].newMsgs = <<>>
        /\ "completion" \notin Range(handler[i].trace)

\* C17 amended: no step of a text handler or a model callback serving a
\* platform user without a User changes a User, a Chat, a Message or a
\* session, and none requests a completion; the handler ends with the prompt
\* to /start (edited into the placeholder by the text handler, sent by the
\* model callback), or with the generic error when User.findOne failed, or,
\* for a model callback whose identifier fails validation, with the
\* corrective message.
C17_UnregisteredChangesNothing ==
    [][\A i \in Handlers :
          (handler'[i] # handler[i] /\ handler'[i].kind \in {"text", "model"}
                                    /\ UsersWith(handler'[i].from) = {}) =>
              /\ users' = users /\ chats' = chats /\ messages' = messages
              /\ session' = session /\ clock' = clock
              /\ handler'[i].newMsgs = <<>>
              /\ "completion" \notin Range(handler'[i].trace)
              /\ handler'[i].pc \in {"findUser", "done"}
              /\ handler'[i].pc = "done" =>
                    \/ /\ handler'[i].outcome = "userNotFound"
                       /\ IF handler'[i].kind = "text"
                          THEN handler'[i].placeholder = "userNotFound"
                          ELSE handler'[i].sent = <<"pleaseStart">>
                    \/ /\ handler'[i].outcome = "error"
                       /\ IF handler'[i].kind = "text"
                          THEN handler'[i].placeholder = "processingError"
                          ELSE handler'[i].sent = <<"modelError">>
                    \/ /\ handler'[i].outcome = "invalidModel"
                       /\ handler'[i].kind = "model"
                       /\ ~IsValidAiModel(handler'[i].data)]_vars

\* in a session that names another platform user's Chat, a platform user
\* without a User has pressed a valid model button and been prompted to /start
C17_Witness ==
    \E i \in Handlers :
        /\ Unregistered(i) /\ handler[i].pc = "done"
        /\ handler[i].outcome = "userNotFound"
        /\ handler[i].sessionBefore # 0
        /\ handler[i].kind = "model" /\ IsValidAiModel(handler[i].data)
        /\ users # {} /\ chats # {}

----------------------------------------------------------------------------
(* The model of a completion request *)

\* handler i has just persisted a model selection
PersistsSelection(i) ==
    /\ handler[i].kind = "model" /\ handler[i].pc = "save"
    /\ handler'[i].pc = "done" /\ handler'[i].outcome = "ok"

\* handler i has just requested a completion
RequestsCompletion(i) ==
    /\ handler[i].kind = "text" /\ handler'[i].kind = "text"
    /\ "completion" \notin Range(handler[i].trace)
    /\ "completion" \in Range(handler'[i].trace)

\* C18: a User is created with the default model; a User's selected model
\* changes only when a model callback of that platform user persists a
\* selection, and then to the selected identifier; and every completion a text
\* handler requests, updates being handled one at a time, names the model the
\* sender's User holds at that moment: the last persisted selection, or the
\* default when there was none.
C18_CompletionUsesSelectedModel ==
    [][/\ \A v \in users' :
             IF \E u \in users : u.id = v.id
             THEN \A u \in users : (u.id = v.id /\ u.selectedModel # v.selectedModel) =>
                     \E i \in Handlers :
                        /\ PersistsSelection(i)
                        /\ handler[i].from = v.telegramId
                        /\ handler[i].data = v.selectedModel
             ELSE v.selectedModel = DefaultModel
       /\ \A i \in Handlers : PersistsSelection(i) =>
             \A v \in users' : v.telegramId = handler[i].from =>
                                   v.selectedModel = handler[i].data
       /\ \A i \in Handlers : RequestsCompletion(i) =>
             /\ UsersWith(handler[i].from) # {}
             /\ \A u \in UsersWith(handler[i].from) :
                   handler'[i].model = u.selectedModel]_vars

\* a platform user selected the other model and then sent a text message: the
\* completion was requested with that model and answered
C18_Witness ==
    \E i \in Handlers :
        /\ Done(i, "text") /\ handler[i].outcome = "ok"
        /\ handler[i].model # DefaultModel
        /\ \A u \in UsersWith(handler[i].from) : u.selectedModel = handler[i].model
        /\ \E v \in users : v.selectedModel = DefaultModel

----------------------------------------------------------------------------
(* The image quality of a session *)

\* a quality or cancel button of a keyboard of session c has just been pressed
KeyboardUsed(c) == keyboards'[c] < keyboards[c]

\* C19: the image quality of every session is a known quality, and it is
\* "standard" in a session in which no button has been pressed; it changes only
\* in a step that uses up a quality keyboard of that session with a valid
\* quality, to exactly the pressed quality, the dialog being entered with it;
\* a button press that does not enter the dialog leaves it unchanged.
C19_ImageQualityKnown ==
    /\ [](\A c \in Convs :
             /\ IsValidImageGenerationQuality(session[c].imageQuality)
             /\ dialog[c].state = "Idle" => session[c].imageQuality = "standard")
    /\ [][\A c \in Convs :
             /\ session'[c].imageQuality # session[c].imageQuality =>
                   /\ KeyboardUsed(c)
                   /\ dialog'[c].state = "AwaitingPrompt"
                   /\ dialog'[c].pressed = session'[c].imageQuality
                   /\ IsValidImageGenerationQuality(dialog'[c].pressed)
             /\ (KeyboardUsed(c) /\ dialog'[c].state = "AwaitingPrompt") =>
                   session'[c].imageQuality = dialog'[c].pressed
             /\ (KeyboardUsed(c) /\ dialog'[c].state # "AwaitingPrompt") =>
                   session'[c].imageQuality = session[c].imageQuality]_vars

\* "hd" was picked in one session and a later keyboard of it was cancelled: the
\* session still holds "hd", another session still holds "standard"
C19_Witness ==
    \E c, d \in Convs :
        /\ c # d
        /\ session[c].imageQuality = "hd" /\ dialog[c].state = "Cancelled"
        /\ session[d].imageQuality = "standard" /\ dialog[d].state = "Idle"

----------------------------------------------------------------------------
(* The history of a completion request *)

====
